---------------------------- MODULE Spec2Model ----------------------------
(***************************************************************************)
(* Model of recipes/soxr/all/conanfile.py (class SoxrConan).               *)
(*                                                                         *)
(* The recipe is a set of lifecycle hooks that the package manager calls   *)
(* in a fixed order:                                                       *)
(*   config_options, configure, source, generate, build, package,         *)
(*   package_info.                                                         *)
(* The state is the recipe object's fields (options, settings, cpp_info),  *)
(* the toolchain maps written by generate, and the filesystem touched by   *)
(* source and package.  package() makes six calls in sequence, any of      *)
(* which may raise, so its position inside the body is part of the state.  *)
(*                                                                         *)
(* Text (file contents, version strings) is a sequence of one-character    *)
(* strings so that str.find, slicing and version parsing are computed.     *)
(***************************************************************************)
EXTENDS Integers, Sequences, FiniteSets, TLC

VARIABLES
    os,                 \* self.settings.os
    arch,               \* self.settings.arch
    compiler,           \* self.settings.compiler
    msvc_runtime,       \* value msvc_runtime_flag(self) returns
    settings_sub,       \* sub-settings still defined (compiler.libcxx, ...)
    version,            \* self.version, as text
    options,            \* self.options: defined option name -> value
    archive,            \* the upstream source tree that get() unpacks
    cwd,                \* working directory while package() runs
    tool_fails,         \* which external tool invocation raises, if any
    install_out,        \* which optional directories cmake install creates
    tc_variables,       \* CMakeToolchain.variables written by generate
    tc_cache_variables, \* CMakeToolchain.cache_variables written by generate
    files,              \* filesystem: path -> content
    cpp_info,           \* self.cpp_info.components
    calls,              \* calls package() has made so far, in order
    pkg_i,              \* number of statements of package() completed
    pc,                 \* last lifecycle hook completed / current position
    err                 \* the exception that aborted the lifecycle, or "none"

vars == <<os, arch, compiler, msvc_runtime, settings_sub, version, options,
          archive, cwd, tool_fails, install_out, tc_variables,
          tc_cache_variables, files, cpp_info, calls, pkg_i, pc, err>>

inputs == <<os, arch, compiler, msvc_runtime, version, archive, cwd,
            tool_fails, install_out>>

---------------------------------------------------------------------------
(* Generic helpers: maps and text. *)

EmptyMap == [k \in {} |-> FALSE]

Put(m, k, v) == [x \in (DOMAIN m) \cup {k} |-> IF x = k THEN v ELSE m[x]]

Remove(m, k) == [x \in (DOMAIN m) \ {k} |-> m[x]]

Min(a, b) == IF a < b THEN a ELSE b

\* Whether sub occurs in s starting at 0-based index i.
MatchAt(s, sub, i) ==
    /\ i + Len(sub) <= Len(s)
    /\ \A k \in 1..Len(sub) : s[i + k] = sub[k]

\* Python str.find: lowest 0-based index of sub in s, or -1.
Find(s, sub) ==
    LET hits == {i \in 0..Len(s) : MatchAt(s, sub, i)}
    IN  IF hits = {} THEN -1
        ELSE CHOOSE i \in hits : \A j \in hits : i <= j

\* Python s[a:b] for a, b >= 0: indices clamp to the length, empty if a >= b.
Slice(s, a, b) ==
    LET hi == Min(b, Len(s))
    IN  IF a >= hi THEN <<>> ELSE SubSeq(s, a + 1, hi)

IsPrefix(p, q) == Len(p) <= Len(q) /\ SubSeq(q, 1, Len(p)) = p

---------------------------------------------------------------------------
(* The two anchors of _extract_pffft_license and the slice offsets. *)

CopyrightAnchor ==
    <<"/", "*", " ", "C", "o", "p", "y", "r", "i", "g", "h", "t">>

ModernCpusAnchor ==
    <<"m", "o", "d", "e", "r", "n", " ", "C", "P", "U", "s", ".">>

CopyrightSkip == 3

ModernCpusSpan == 13

\* license_contents of _extract_pffft_license for the text pffft_c.
LicenseContents(pffft_c) ==
    Slice(pffft_c,
          Find(pffft_c, CopyrightAnchor) + CopyrightSkip,
          Find(pffft_c, ModernCpusAnchor) + ModernCpusSpan)

---------------------------------------------------------------------------
(* Version(self.version) < "3.21": conan.tools.scm.Version splits the text  *)
(* on ".", reads each item as an integer, drops trailing zero items and     *)
(* compares the item tuples.                                                *)

DigitValue(c) ==
    CASE c = "0" -> 0 [] c = "1" -> 1 [] c = "2" -> 2 [] c = "3" -> 3
      [] c = "4" -> 4 [] c = "5" -> 5 [] c = "6" -> 6 [] c = "7" -> 7
      [] c = "8" -> 8 [] c = "9" -> 9

RECURSIVE ToInt(_)
ToInt(ds) ==
    IF ds = <<>> THEN 0
    ELSE 10 * ToInt(SubSeq(ds, 1, Len(ds) - 1)) + DigitValue(ds[Len(ds)])

RECURSIVE SplitDots(_)
SplitDots(s) ==
    LET i == Find(s, <<".">>)
    IN  IF i = -1 THEN <<s>>
        ELSE <<SubSeq(s, 1, i)>> \o SplitDots(SubSeq(s, i + 2, Len(s)))

VersionItems(v) ==
    LET parts == SplitDots(v)
    IN  [k \in 1..Len(parts) |-> ToInt(parts[k])]

RECURSIVE NonzeroItems(_)
NonzeroItems(items) ==
    IF items # <<>> /\ items[Len(items)] = 0
    THEN NonzeroItems(SubSeq(items, 1, Len(items) - 1))
    ELSE items

\* Python tuple comparison a < b.
TupleLess(a, b) ==
    LET n == Min(Len(a), Len(b))
        diff == {k \in 1..n : a[k] # b[k]}
    IN  IF diff = {} THEN Len(a) < Len(b)
        ELSE LET k == CHOOSE x \in diff : \A y \in diff : x <= y
             IN  a[k] < b[k]

VersionLess(a, b) ==
    TupleLess(NonzeroItems(VersionItems(a)), NonzeroItems(VersionItems(b)))

PolicyThreshold == <<"3", ".", "2", "1">>

\* A comparison of the version texts as plain strings, character by
\* character, instead of as versions.
CharCode(c) == IF c = "." THEN 46 ELSE 48 + DigitValue(c)

LegacyPolicyAsText(v) ==
    TupleLess([k \in 1..Len(v) |-> CharCode(v[k])],
              [k \in 1..Len(PolicyThreshold) |-> CharCode(PolicyThreshold[k])])

\* generate: the condition of line 57.
LegacyPolicy(v) == VersionLess(v, PolicyThreshold)

---------------------------------------------------------------------------
(* generate *)

CacheVariables(v) ==
    LET base == Put(EmptyMap, "CMAKE_POLICY_DEFAULT_CMP0077", "NEW")
    IN  IF LegacyPolicy(v)
        THEN Put(base, "CMAKE_POLICY_DEFAULT_CMP0115", "OLD")
        ELSE base

\* conan.tools.microsoft.is_msvc
IsMsvc(c) == c \in {"Visual Studio", "msvc"}

\* A SIMD switch that looks at the operating system only.
SimdDisabledAnyArch(o, a) == o = "Macos"

\* generate: the condition of line 63.
SimdDisabled(o, a) == o = "Macos" /\ a = "armv8"

ToolchainVariables(o, a, c, rt, opts) ==
    LET v1 == IF IsMsvc(c)
              THEN Put(EmptyMap, "BUILD_SHARED_RUNTIME", rt = "MD")
              ELSE EmptyMap
        v2 == IF SimdDisabled(o, a)
              THEN Put(Put(v1, "WITH_CR32S", FALSE), "WITH_CR64S", FALSE)
              ELSE v1
        v3 == Put(v2, "BUILD_TESTS", FALSE)
        v4 == Put(v3, "WITH_OPENMP", opts["with_openmp"])
    IN  Put(v4, "WITH_LSR_BINDINGS", opts["with_lsr_bindings"])

---------------------------------------------------------------------------
(* package_info *)

\* A component of cpp_info before the recipe touches it.
NewComponent ==
    [pkg_config_name |-> "", libs |-> <<>>, system_libs |-> <<>>,
     defines |-> <<>>, exelinkflags |-> <<>>, sharedlinkflags |-> <<>>,
     requires |-> <<>>]

\* System libraries declared on Linux only.
SystemLibsLinuxOnly(o) == IF o = "Linux" THEN <<"m">> ELSE <<>>

SystemLibs(o) == IF o \in {"FreeBSD", "Linux"} THEN <<"m">> ELSE <<>>

\* The define added on Windows whatever the linkage.
CoreDefinesAnyLinkage(o, shared) ==
    IF o = "Windows" THEN <<"SOXR_DLL">> ELSE <<>>

CoreDefines(o, shared) ==
    IF o = "Windows" /\ shared THEN <<"SOXR_DLL">> ELSE <<>>

LsrDefines(o, shared) ==
    IF o = "Windows" /\ shared THEN <<"SOXR_DLL">> ELSE <<>>

\* apple-clang given the flags of clang.
OpenmpFlagsAppleAsClang(c) ==
    IF c \in {"Visual Studio", "msvc"} THEN <<"-openmp">>
    ELSE IF c \in {"gcc", "clang", "apple-clang"} THEN <<"-fopenmp">>
    ELSE <<>>

OpenmpFlags(c) ==
    IF c \in {"Visual Studio", "msvc"} THEN <<"-openmp">>
    ELSE IF c \in {"gcc", "clang"} THEN <<"-fopenmp">>
    ELSE IF c = "apple-clang" THEN <<"-Xpreprocessor", "-fopenmp">>
    ELSE <<>>

CoreComponent(o, c, opts) ==
    LET c1 == [NewComponent EXCEPT !.pkg_config_name = "soxr",
                                   !.libs = <<"soxr">>,
                                   !.system_libs = SystemLibs(o),
                                   !.defines = CoreDefines(o, opts["shared"])]
    IN  IF ~opts["shared"] /\ opts["with_openmp"]
        THEN [c1 EXCEPT !.exelinkflags = OpenmpFlags(c),
                        !.sharedlinkflags = OpenmpFlags(c)]
        ELSE c1

\* An lsr component that declares no dependency on core.
LsrComponentNoRequires(o, opts) ==
    [NewComponent EXCEPT !.pkg_config_name = "soxr-lsr",
                         !.libs = <<"soxr-lsr">>,
                         !.defines = LsrDefines(o, opts["shared"])]

LsrComponent(o, opts) ==
    [NewComponent EXCEPT !.pkg_config_name = "soxr-lsr",
                         !.libs = <<"soxr-lsr">>,
                         !.defines = LsrDefines(o, opts["shared"]),
                         !.requires = <<"core">>]

Components(o, c, opts) ==
    LET core == Put(EmptyMap, "core", CoreComponent(o, c, opts))
    IN  IF opts["with_lsr_bindings"]
        THEN Put(core, "lsr", LsrComponent(o, opts))
        ELSE core

---------------------------------------------------------------------------
(* config_options and configure *)

\* del self.options.<name>: raises when the option is not defined.
DelOption(opts, name) ==
    IF name \in DOMAIN opts
    THEN [raised |-> FALSE, options |-> Remove(opts, name)]
    ELSE [raised |-> TRUE, options |-> opts]

\* self.options.rm_safe(<name>): never raises.
RmSafe(opts, name) == [raised |-> FALSE, options |-> Remove(opts, name)]

ConfigOptionsResult(o, opts) ==
    IF o = "Windows" THEN DelOption(opts, "fPIC")
    ELSE [raised |-> FALSE, options |-> opts]

\* configure removing fPIC with del instead of rm_safe.
ConfigureResultDel(opts) ==
    IF opts["shared"] THEN DelOption(opts, "fPIC")
    ELSE [raised |-> FALSE, options |-> opts]

ConfigureResult(opts) ==
    IF opts["shared"] THEN RmSafe(opts, "fPIC")
    ELSE [raised |-> FALSE, options |-> opts]

---------------------------------------------------------------------------
(* The filesystem: source and package *)

SourceFolder == "source_folder"
BuildFolder == "build_folder"
PackageFolder == "package_folder"

PffftPath == <<SourceFolder, "src", "pffft.c">>

\* The extract saved beside the main licence under the licence's own name.
PffftLicensePathAsLicence == <<PackageFolder, "licenses", "LICENCE">>

\* _extract_pffft_license: the path given to save().
PffftLicensePath == <<PackageFolder, "licenses", "LICENSE">>

\* copy(self, "LICENCE", dst="licenses", src=self.source_folder): the file
\* keeps its name, and the relative dst resolves against the working directory.
LicenceSourcePath == <<SourceFolder, "LICENCE">>

LicenceCopyPath(wd) == <<wd, "licenses", "LICENCE">>

CopyLicenceResult(fs, wd) ==
    IF LicenceSourcePath \in DOMAIN fs
    THEN Put(fs, LicenceCopyPath(wd), fs[LicenceSourcePath])
    ELSE fs

\* rmdir: removes the directory and all below it; a no-op when it is absent.
Rmdir(fs, dir) == [p \in {q \in DOMAIN fs : ~IsPrefix(dir, q)} |-> fs[p]]

DocDir == <<PackageFolder, "doc">>
PkgconfigDir == <<PackageFolder, "lib", "pkgconfig">>
ShareDir == <<PackageFolder, "share">>

BinaryContent == <<"b", "i", "n">>

\* What cmake install puts in the package folder.
InstalledFiles(out, opts) ==
    LET libs == {<<PackageFolder, "lib", "libsoxr.a">>,
                 <<PackageFolder, "include", "soxr.h">>}
        lsr  == IF opts["with_lsr_bindings"]
                THEN {<<PackageFolder, "lib", "libsoxr-lsr.a">>} ELSE {}
        doc  == IF "doc" \in out
                THEN {<<PackageFolder, "doc", "README">>} ELSE {}
        pc1  == IF "pkgconfig" \in out
                THEN {<<PackageFolder, "lib", "pkgconfig", "soxr.pc">>} ELSE {}
        shr  == IF "share" \in out
                THEN {<<PackageFolder, "share", "doc", "NEWS">>} ELSE {}
    IN  libs \cup lsr \cup doc \cup pc1 \cup shr

InstallResult(fs, out, opts) ==
    LET new == InstalledFiles(out, opts)
    IN  [p \in (DOMAIN fs) \cup new |->
            IF p \in new THEN BinaryContent ELSE fs[p]]

\* package() with the directories pruned before the install step.
PackageOrderPruneFirst ==
    <<"copy_licence", "extract_pffft_license", "rmdir_doc", "rmdir_pkgconfig",
      "rmdir_share", "cmake_install">>

\* package(): its statements in order (lines 83 to 89).
PackageOrder ==
    <<"copy_licence", "extract_pffft_license", "cmake_install", "rmdir_doc",
      "rmdir_pkgconfig", "rmdir_share">>

---------------------------------------------------------------------------
(* Inputs *)

OSes == {"Windows", "Linux", "FreeBSD", "Macos", "Android"}
Archs == {"x86_64", "armv8"}
Compilers == {"Visual Studio", "msvc", "gcc", "clang", "apple-clang", "intel-cc"}
MsvcRuntimes == {"MD", "MDd", "MT", "MTd"}
SubSettings == {"compiler.libcxx", "compiler.cppstd"}
OptionNames == {"shared", "fPIC", "with_openmp", "with_lsr_bindings"}
Folders == {SourceFolder, BuildFolder, PackageFolder}
ToolFailures == {"none", "get", "build", "install"}
InstallDirs == {"doc", "pkgconfig", "share"}

\* default_options
DefaultOptions ==
    [shared |-> FALSE, fPIC |-> TRUE, with_openmp |-> FALSE,
     with_lsr_bindings |-> TRUE]

\* Version texts: up to MaxVersionParts dot-separated items of one or two digits.
MaxVersionParts == 2

VersionDigits == {"0", "1", "2", "3", "9"}

ItemTexts ==
    {<<a>> : a \in VersionDigits} \cup
    {<<a, b>> : a \in VersionDigits, b \in VersionDigits}

RECURSIVE VersionTexts(_)
VersionTexts(n) ==
    IF n = 1 THEN ItemTexts
    ELSE {v \o <<".">> \o i : v \in VersionTexts(n - 1), i \in ItemTexts}

Versions == UNION {VersionTexts(n) : n \in 1..MaxVersionParts}

DefaultVersion == <<"0", ".", "1", ".", "3">>

\* Texts of src/pffft.c: filler, the opening anchor or not, the licence body,
\* the closing anchor or not, a trailer; and the two anchors in reverse order.
MaxFiller == 2
MaxTrailer == 2

Filler(n) == [k \in 1..n |-> "#"]
Trailer(n) == [k \in 1..n |-> "\n"]
LicenceBody == <<" ", "(", "c", ")", " ">>

PffftText(f, a1, a2, t) ==
    Filler(f) \o (IF a1 THEN CopyrightAnchor ELSE <<>>) \o LicenceBody
              \o (IF a2 THEN ModernCpusAnchor ELSE <<>>) \o Trailer(t)

PffftTexts ==
    {PffftText(f, a1, a2, t) :
        f \in 0..MaxFiller, a1 \in BOOLEAN, a2 \in BOOLEAN, t \in 0..MaxTrailer}
    \cup {Filler(f) \o ModernCpusAnchor \o LicenceBody \o CopyrightAnchor :
            f \in 0..MaxFiller}

MainLicenceText == <<"L", "G", "P", "L">>

\* Upstream source trees: with or without LICENCE, with some src/pffft.c or none.
Archives ==
    LET base == Put(EmptyMap, <<"src", "soxr.c">>, <<"c">>)
        lic(m, has) == IF has THEN Put(m, <<"LICENCE">>, MainLicenceText) ELSE m
    IN  {lic(base, has) : has \in BOOLEAN}
        \cup {lic(Put(base, <<"src", "pffft.c">>, t), has) :
                t \in PffftTexts, has \in BOOLEAN}

NominalArchive ==
    Put(Put(Put(EmptyMap, <<"src", "soxr.c">>, <<"c">>),
            <<"LICENCE">>, MainLicenceText),
        <<"src", "pffft.c">>, PffftText(1, TRUE, TRUE, 2))

---------------------------------------------------------------------------
(* Initial states.  The hooks read disjoint inputs, so each family of runs   *)
(* ranges over the inputs of one group of hooks in full and holds the other *)
(* inputs at the recipe's defaults.                                          *)

InitOutputs ==
    /\ tc_variables = EmptyMap
    /\ tc_cache_variables = EmptyMap
    /\ files = EmptyMap
    /\ cpp_info = EmptyMap
    /\ calls = <<>>
    /\ pkg_i = 0
    /\ pc = "start"
    /\ err = "none"

\* Every platform and every option set: config_options, configure,
\* generate's variables and package_info.
InitPlatform ==
    /\ os \in OSes
    /\ arch \in Archs
    /\ compiler \in Compilers
    /\ msvc_runtime \in (IF IsMsvc(compiler) THEN MsvcRuntimes ELSE {""})
    /\ settings_sub \in SUBSET SubSettings
    /\ options \in [OptionNames -> BOOLEAN]
    /\ version = DefaultVersion
    /\ archive = NominalArchive
    /\ cwd = BuildFolder
    /\ tool_fails = "none"
    /\ install_out = InstallDirs

\* Every version text: generate's policy variables.
InitVersion ==
    /\ os = "Linux" /\ arch = "x86_64" /\ compiler = "gcc" /\ msvc_runtime = ""
    /\ settings_sub = SubSettings
    /\ options = DefaultOptions
    /\ version \in Versions
    /\ archive = NominalArchive
    /\ cwd = BuildFolder
    /\ tool_fails = "none"
    /\ install_out = InstallDirs

\* Every source tree, working directory and external-tool outcome: package.
InitPackage ==
    /\ os = "Linux" /\ arch = "x86_64" /\ compiler = "gcc" /\ msvc_runtime = ""
    /\ settings_sub = SubSettings
    /\ options \in {DefaultOptions,
                    [DefaultOptions EXCEPT !.with_lsr_bindings = FALSE]}
    /\ version = DefaultVersion
    /\ archive \in Archives
    /\ cwd \in Folders
    /\ tool_fails \in ToolFailures
    /\ install_out \in (IF tool_fails = "none" THEN SUBSET InstallDirs ELSE {{}})

Init == InitOutputs /\ (InitPlatform \/ InitVersion \/ InitPackage)

---------------------------------------------------------------------------
(* The lifecycle hooks *)

Raise(e) == pc' = "failed" /\ err' = e

\* config_options (lines 36-38)
ConfigOptions ==
    /\ pc = "start"
    /\ LET r == ConfigOptionsResult(os, options)
       IN  IF r.raised
           THEN Raise("config_options") /\ UNCHANGED options
           ELSE pc' = "config_options" /\ options' = r.options /\ UNCHANGED err
    /\ UNCHANGED <<inputs, settings_sub, tc_variables, tc_cache_variables,
                   files, cpp_info, calls, pkg_i>>

\* configure (lines 40-44)
Configure ==
    /\ pc = "config_options"
    /\ LET r == ConfigureResult(options)
       IN  IF r.raised
           THEN Raise("configure") /\ UNCHANGED <<options, settings_sub>>
           ELSE /\ pc' = "configure"
                /\ options' = r.options
                /\ settings_sub' = settings_sub \ SubSettings
                /\ UNCHANGED err
    /\ UNCHANGED <<inputs, tc_variables, tc_cache_variables, files, cpp_info,
                   calls, pkg_i>>

\* source (lines 49-51): get() unpacks the archive into the source folder.
Source ==
    /\ pc = "configure"
    /\ tool_fails # "get"
    /\ files' = [p \in {<<SourceFolder>> \o q : q \in DOMAIN archive} |->
                    archive[Tail(p)]]
    /\ pc' = "source"
    /\ UNCHANGED <<inputs, settings_sub, options, tc_variables,
                   tc_cache_variables, cpp_info, calls, pkg_i, err>>

SourceFails ==
    /\ pc = "configure"
    /\ tool_fails = "get"
    /\ Raise("get")
    /\ UNCHANGED <<inputs, settings_sub, options, tc_variables,
                   tc_cache_variables, files, cpp_info, calls, pkg_i>>

\* generate (lines 53-69)
Generate ==
    /\ pc = "source"
    /\ tc_cache_variables' = CacheVariables(version)
    /\ tc_variables' =
           ToolchainVariables(os, arch, compiler, msvc_runtime, options)
    /\ pc' = "generate"
    /\ UNCHANGED <<inputs, settings_sub, options, files, cpp_info, calls,
                   pkg_i, err>>

\* build (lines 71-75); on success the package manager goes on to package().
Build ==
    /\ pc = "generate"
    /\ tool_fails # "build"
    /\ pc' = "package"
    /\ UNCHANGED <<inputs, settings_sub, options, tc_variables,
                   tc_cache_variables, files, cpp_info, calls, pkg_i, err>>

BuildFails ==
    /\ pc = "generate"
    /\ tool_fails = "build"
    /\ Raise("build")
    /\ UNCHANGED <<inputs, settings_sub, options, tc_variables,
                   tc_cache_variables, files, cpp_info, calls, pkg_i>>

\* package (lines 82-89), one statement at a time.
AtStatement(name) ==
    /\ pc = "package"
    /\ pkg_i < Len(PackageOrder)
    /\ PackageOrder[pkg_i + 1] = name

Advance ==
    /\ pkg_i' = pkg_i + 1
    /\ pc' = IF pkg_i + 1 = Len(PackageOrder) THEN "packaged" ELSE "package"
    /\ UNCHANGED err

PackageFrame ==
    UNCHANGED <<inputs, settings_sub, options, tc_variables,
                tc_cache_variables, cpp_info>>

CopyLicence ==
    /\ AtStatement("copy_licence")
    /\ files' = CopyLicenceResult(files, cwd)
    /\ calls' = Append(calls, "copy")
    /\ Advance
    /\ PackageFrame

\* _extract_pffft_license (lines 77-80); load() raises when the file is absent.
ExtractPffftLicense ==
    /\ AtStatement("extract_pffft_license")
    /\ IF PffftPath \in DOMAIN files
       THEN /\ files' = Put(files, PffftLicensePath,
                            LicenseContents(files[PffftPath]))
            /\ calls' = calls \o <<"load", "save">>
            /\ Advance
       ELSE /\ calls' = Append(calls, "load")
            /\ Raise("load")
            /\ UNCHANGED <<files, pkg_i>>
    /\ PackageFrame

CmakeInstall ==
    /\ AtStatement("cmake_install")
    /\ tool_fails # "install"
    /\ files' = InstallResult(files, install_out, options)
    /\ calls' = Append(calls, "cmake.install")
    /\ Advance
    /\ PackageFrame

CmakeInstallFails ==
    /\ AtStatement("cmake_install")
    /\ tool_fails = "install"
    /\ calls' = Append(calls, "cmake.install")
    /\ Raise("install")
    /\ UNCHANGED <<files, pkg_i>>
    /\ PackageFrame

RmdirDoc ==
    /\ AtStatement("rmdir_doc")
    /\ files' = Rmdir(files, DocDir)
    /\ calls' = Append(calls, "rmdir doc")
    /\ Advance
    /\ PackageFrame

RmdirPkgconfig ==
    /\ AtStatement("rmdir_pkgconfig")
    /\ files' = Rmdir(files, PkgconfigDir)
    /\ calls' = Append(calls, "rmdir lib/pkgconfig")
    /\ Advance
    /\ PackageFrame

RmdirShare ==
    /\ AtStatement("rmdir_share")
    /\ files' = Rmdir(files, ShareDir)
    /\ calls' = Append(calls, "rmdir share")
    /\ Advance
    /\ PackageFrame

\* package_info (lines 91-116)
PackageInfo ==
    /\ pc = "packaged"
    /\ cpp_info' = Components(os, compiler, options)
    /\ pc' = "package_info"
    /\ UNCHANGED <<inputs, settings_sub, options, tc_variables,
                   tc_cache_variables, files, calls, pkg_i, err>>

Next ==
    \/ ConfigOptions
    \/ Configure
    \/ Source
    \/ SourceFails
    \/ Generate
    \/ Build
    \/ BuildFails
    \/ CopyLicence
    \/ ExtractPffftLicense
    \/ CmakeInstall
    \/ CmakeInstallFails
    \/ RmdirDoc
    \/ RmdirPkgconfig
    \/ RmdirShare
    \/ PackageInfo

Spec == Init /\ [][Next]_vars

---------------------------------------------------------------------------
(* Properties *)

Has(seq, x) == \E i \in DOMAIN seq : seq[i] = x

Elems(seq) == {seq[i] : i \in DOMAIN seq}

\* generate has run.
Generated ==
    \/ pc \in {"generate", "package", "packaged", "package_info"}
    \/ pc = "failed" /\ err \in {"build", "load", "install"}

\* configure has run.
Configured ==
    \/ pc \in {"configure", "source"}
    \/ Generated
    \/ pc = "failed" /\ err = "get"

\* package() has returned.
Packaged == pc \in {"packaged", "package_info"}

InfoEmitted == pc = "package_info"

\* C1: package_info always emits core; it emits lsr exactly when
\* with_lsr_bindings is true; an emitted lsr has libs ["soxr-lsr"] and
\* requires exactly {"core"}; core never requires lsr.
C1_Components ==
    InfoEmitted =>
        /\ "core" \in DOMAIN cpp_info
        /\ DOMAIN cpp_info \subseteq {"core", "lsr"}
        /\ ("lsr" \in DOMAIN cpp_info) <=> options["with_lsr_bindings"]
        /\ ("lsr" \in DOMAIN cpp_info) =>
              /\ Elems(cpp_info["lsr"].requires) = {"core"}
              /\ cpp_info["lsr"].libs = <<"soxr-lsr">>
        /\ ~Has(cpp_info["core"].requires, "lsr")

C1_Witness ==
    /\ InfoEmitted
    /\ "lsr" \in DOMAIN cpp_info
    /\ cpp_info["lsr"].requires = <<"core">>
    /\ options["shared"] /\ options["with_openmp"]

\* C2: once config_options and configure have run, fPIC is not a defined
\* option whenever os is Windows or shared is true, and neither hook raised
\* (in particular configure on Windows with shared=true, where fPIC is
\* already gone).
C2_FpicRemoved ==
    /\ err \notin {"config_options", "configure"}
    /\ Configured =>
          ((os = "Windows" \/ options["shared"]) => "fPIC" \notin DOMAIN options)

C2_Witness ==
    /\ pc = "configure"
    /\ os = "Windows"
    /\ options["shared"]
    /\ "fPIC" \notin DOMAIN options

\* C3: when src/pffft.c lacks either anchor, _extract_pffft_license raises
\* an extraction error and writes no license file.
C3_MissingAnchorRaises ==
    (/\ Has(calls, "load")
     /\ PffftPath \in DOMAIN files
     /\ \/ Find(files[PffftPath], CopyrightAnchor) = -1
        \/ Find(files[PffftPath], ModernCpusAnchor) = -1)
    => /\ pc = "failed"
       /\ ~Has(calls, "save")
       /\ <<PackageFolder, "licenses", "LICENSE">> \notin DOMAIN files

\* The OpenMP link flags the claim lists for each compiler.
ClaimedOpenmpFlags(c) ==
    CASE c \in {"Visual Studio", "msvc"} -> <<"-openmp">>
      [] c \in {"gcc", "clang"} -> <<"-fopenmp">>
      [] c = "apple-clang" -> <<"-Xpreprocessor", "-fopenmp">>
      [] OTHER -> <<>>

\* C4: with shared false and with_openmp true, core's exelinkflags and
\* sharedlinkflags are the same sequence, fixed by the compiler: -openmp for
\* Visual Studio/msvc, -fopenmp for gcc and clang, -Xpreprocessor -fopenmp
\* for apple-clang, empty for any other compiler; otherwise core has no
\* link flags.
C4_OpenmpFlags ==
    InfoEmitted =>
        LET core == cpp_info["core"]
        IN  IF ~options["shared"] /\ options["with_openmp"]
            THEN /\ core.exelinkflags = ClaimedOpenmpFlags(compiler)
                 /\ core.sharedlinkflags = ClaimedOpenmpFlags(compiler)
            ELSE /\ core.exelinkflags = <<>>
                 /\ core.sharedlinkflags = <<>>

C4_Witness ==
    /\ InfoEmitted
    /\ compiler = "apple-clang"
    /\ ~options["shared"] /\ options["with_openmp"]
    /\ cpp_info["core"].exelinkflags = <<"-Xpreprocessor", "-fopenmp">>
    /\ cpp_info["core"].sharedlinkflags = <<"-Xpreprocessor", "-fopenmp">>

\* C5: SOXR_DLL is among core's defines exactly when os is Windows and
\* shared is true, and the same holds of lsr whenever lsr is emitted.
C5_SoxrDll ==
    InfoEmitted =>
        \A n \in DOMAIN cpp_info :
            Has(cpp_info[n].defines, "SOXR_DLL")
                <=> (os = "Windows" /\ options["shared"])

C5_Witness ==
    /\ InfoEmitted
    /\ os = "Windows" /\ options["shared"]
    /\ cpp_info["core"].defines = <<"SOXR_DLL">>
    /\ "lsr" \in DOMAIN cpp_info
    /\ cpp_info["lsr"].defines = <<"SOXR_DLL">>

\* C6: core's system libraries are {"m"} on Linux and FreeBSD and empty on
\* every other os, whatever the options and the compiler; lsr never
\* declares system libraries.
C6_SystemLibs ==
    InfoEmitted =>
        /\ Elems(cpp_info["core"].system_libs) =
              (IF os = "Linux" \/ os = "FreeBSD" THEN {"m"} ELSE {})
        /\ ("lsr" \in DOMAIN cpp_info) => cpp_info["lsr"].system_libs = <<>>

C6_Witness ==
    /\ InfoEmitted
    /\ os = "FreeBSD"
    /\ cpp_info["core"].system_libs = <<"m">>
    /\ "lsr" \in DOMAIN cpp_info

\* C7: the toolchain variables hold WITH_CR32S and WITH_CR64S, both false,
\* when os is Macos and arch is armv8, and neither of them for any other
\* (os, arch); BUILD_TESTS is always false and WITH_OPENMP and
\* WITH_LSR_BINDINGS equal the option values.
C7_ToolchainVariables ==
    Generated =>
        /\ IF os = "Macos" /\ arch = "armv8"
           THEN /\ {"WITH_CR32S", "WITH_CR64S"} \subseteq DOMAIN tc_variables
                /\ tc_variables["WITH_CR32S"] = FALSE
                /\ tc_variables["WITH_CR64S"] = FALSE
           ELSE {"WITH_CR32S", "WITH_CR64S"}
                    \cap (DOMAIN tc_variables \cup DOMAIN tc_cache_variables) = {}
        /\ "BUILD_TESTS" \in DOMAIN tc_variables
        /\ tc_variables["BUILD_TESTS"] = FALSE
        /\ tc_variables["WITH_OPENMP"] = options["with_openmp"]
        /\ tc_variables["WITH_LSR_BINDINGS"] = options["with_lsr_bindings"]

C7_Witness ==
    /\ pc = "generate"
    /\ os = "Macos" /\ arch = "armv8"
    /\ tc_variables["WITH_CR32S"] = FALSE
    /\ tc_variables["WITH_CR64S"] = FALSE
    /\ options["with_openmp"] /\ ~options["with_lsr_bindings"]

\* Below 3.21 item by item: major below 3, or major 3 and minor below 21
\* (a version without a minor item has minor 0).
ClaimedBelowThreshold(v) ==
    LET items == VersionItems(v)
        major == items[1]
        minor == IF Len(items) >= 2 THEN items[2] ELSE 0
    IN  major < 3 \/ (major = 3 /\ minor < 21)

\* C8: CMAKE_POLICY_DEFAULT_CMP0115 = "OLD" is among the generated variables
\* exactly when the version is below 3.21 compared item by item as numbers
\* (3.20 and 3.9 are below, 3.21 and 3.22 are not);
\* CMAKE_POLICY_DEFAULT_CMP0077 = "NEW" is there for every version.
C8_LegacyPolicy ==
    Generated =>
        /\ "CMAKE_POLICY_DEFAULT_CMP0077" \in DOMAIN tc_cache_variables
        /\ tc_cache_variables["CMAKE_POLICY_DEFAULT_CMP0077"] = "NEW"
        /\ ("CMAKE_POLICY_DEFAULT_CMP0115" \in DOMAIN tc_cache_variables)
               <=> ClaimedBelowThreshold(version)
        /\ ("CMAKE_POLICY_DEFAULT_CMP0115" \in DOMAIN tc_cache_variables)
               => tc_cache_variables["CMAKE_POLICY_DEFAULT_CMP0115"] = "OLD"
        /\ version \in {<<"3", ".", "2", "0">>, <<"3", ".", "9">>}
               => "CMAKE_POLICY_DEFAULT_CMP0115" \in DOMAIN tc_cache_variables
        /\ version \in {<<"3", ".", "2", "1">>, <<"3", ".", "2", "2">>}
               => "CMAKE_POLICY_DEFAULT_CMP0115" \notin DOMAIN tc_cache_variables

C8_Witness ==
    /\ pc = "generate"
    /\ version = <<"3", ".", "9">>
    /\ tc_cache_variables["CMAKE_POLICY_DEFAULT_CMP0115"] = "OLD"

\* C9 as stated: after package() returns, licenses/LICENSE holds the main
\* license copied from the source tree and another file of the licenses
\* directory holds the text extracted from src/pffft.c.  Stated for the
\* working directory that puts the copy in the package folder.
C9_LayoutAsStated ==
    (Packaged /\ cwd = PackageFolder) =>
        LET main == <<PackageFolder, "licenses", "LICENSE">>
        IN  /\ main \in DOMAIN files
            /\ files[main] = MainLicenceText
            /\ \E p \in DOMAIN files :
                  /\ p # main
                  /\ IsPrefix(<<PackageFolder, "licenses">>, p)
                  /\ files[p] = LicenseContents(files[PffftPath])

\* C9 amended: after package() returns, <package folder>/licenses/LICENSE
\* holds the text extracted from src/pffft.c; the main license, when the
\* source tree has a file LICENCE, is copied under that name into the
\* directory licenses of the working directory; the two paths differ, and
\* from the copy on the main license's path keeps the main license: the
\* extraction never writes to it.
C9_LicenseFiles ==
    LET extract == <<PackageFolder, "licenses", "LICENSE">>
        main    == <<cwd, "licenses", "LICENCE">>
    IN  /\ main # extract
        /\ (Has(calls, "copy") /\ <<SourceFolder, "LICENCE">> \in DOMAIN files)
              => /\ main \in DOMAIN files
                 /\ files[main] = MainLicenceText
        /\ Has(calls, "save") =>
              /\ extract \in DOMAIN files
              /\ files[extract] = LicenseContents(files[PffftPath])
        /\ Packaged => Has(calls, "copy") /\ Has(calls, "save")

C9_Witness ==
    /\ pc = "packaged"
    /\ cwd = PackageFolder
    /\ {<<PackageFolder, "licenses", "LICENCE">>,
        <<PackageFolder, "licenses", "LICENSE">>} \subseteq DOMAIN files
    /\ files[<<PackageFolder, "licenses", "LICENCE">>] = MainLicenceText
    /\ files[PffftPath] = PffftText(1, TRUE, TRUE, 1)
    /\ files[<<PackageFolder, "licenses", "LICENSE">>] =
           <<"C", "o", "p", "y", "r", "i", "g", "h", "t">> \o LicenceBody
               \o ModernCpusAnchor \o <<"\n">>

PruneCalls == {"rmdir doc", "rmdir lib/pkgconfig", "rmdir share"}

InstallBefore(i) == \E j \in 1..(i - 1) : calls[j] = "cmake.install"

Pruned ==
    \A p \in DOMAIN files :
        ~(IsPrefix(DocDir, p) \/ IsPrefix(PkgconfigDir, p) \/ IsPrefix(ShareDir, p))

\* C10 as stated: the license copy, the license extraction and the three
\* directory removals each happen only after cmake.install() was invoked,
\* and a failing install leaves no license file written.
C10_OrderAsStated ==
    /\ \A i \in DOMAIN calls :
          calls[i] \in PruneCalls \cup {"copy", "save"} => InstallBefore(i)
    /\ err = "install" =>
          /\ <<PackageFolder, "licenses", "LICENSE">> \notin DOMAIN files
          /\ <<cwd, "licenses", "LICENCE">> \notin DOMAIN files

\* C10 amended: the three directory removals each happen only after
\* cmake.install() was invoked, so once package() has returned no doc,
\* lib/pkgconfig or share directory is left in the package folder; the
\* license copy and the license extraction happen before the install, so a
\* failing install leaves the license files written and removes nothing.
C10_Order ==
    /\ \A i \in DOMAIN calls : calls[i] \in PruneCalls => InstallBefore(i)
    /\ \A i \in DOMAIN calls :
          calls[i] \in {"copy", "save"} => ~InstallBefore(i)
    /\ Has(calls, "cmake.install") => Has(calls, "copy") /\ Has(calls, "save")
    /\ Packaged => Pruned
    /\ err = "install" =>
          /\ <<PackageFolder, "licenses", "LICENSE">> \in DOMAIN files
          /\ \A i \in DOMAIN calls : calls[i] \notin PruneCalls

C10_Witness ==
    /\ pc = "packaged"
    /\ install_out = InstallDirs
    /\ calls[Len(calls)] = "rmdir share"
    /\ <<PackageFolder, "lib", "libsoxr.a">> \in DOMAIN files
    /\ <<PackageFolder, "licenses", "LICENSE">> \in DOMAIN files

=============================================================================
